---------------------------- MODULE Spec2Model ----------------------------
(***************************************************************************)
(* A model of syuririk/get_data.                                           *)
(*                                                                         *)
(* The Krx wrapper (src/getData/krx.py): the reconstruction of active      *)
(* periods from membership events, period compression, the membership diff *)
(* over daily snapshots and the masking of retrieved OHLCV rows.           *)
(*                                                                         *)
(* Dates are day numbers; day 1 is a Monday.  Ticker codes are the strings *)
(* of CodeList, whose position gives their (lexicographic) order.  The     *)
(* pykrx queries are external collaborators: a query is a nondeterministic *)
(* choice over the outcomes it can have.                                   *)
(*                                                                         *)
(* EcosAPI (src/funcs/ecos.py): the parser of time tokens, the shaping of  *)
(* a statistic response into a frame, the conversion of the dates of a     *)
(* request into tokens, and the request methods, with those of Fred        *)
(* (src/getData/fred.py) and Dart (src/getData/dart.py).                   *)
(*                                                                         *)
(* The factor computation (src/processData): ratio_factor with safe_div,   *)
(* cs_zscore, and compute_factors with log_factor.                         *)
(*                                                                         *)
(* Each operation has its own specification; the variables of the other    *)
(* operations stay at their idle values.                                   *)
(***************************************************************************)
EXTENDS Integers, Sequences, FiniteSets

VARIABLES
    pc,          \* position of the call being modelled
    df,          \* the frame passed to the call (a sequence of rows)
    sorted_df,   \* build_ticker_periods: df after sort_values("date")
    results,     \* the periods returned by build_ticker_periods
    ret,         \* how the call ended: "none", "ok" or the exception raised
    compressed,  \* the frame returned by compress_periods
    start_date,  \* get_index_deposit: the caller's start date
    end_date,    \* get_index_deposit: the caller's end date
    di,          \* get_index_deposit: next position in dates
    records,     \* get_index_deposit: the events recorded so far
    prev_set,    \* get_index_deposit: <<>> for None, <<S>> for the set S
    queries,     \* the queries issued so far, in order
    all_dfs,     \* get_combined_ohlcv: the masked frame of each code so far
    fetched,     \* get_combined_ohlcv: the rows each query returned
    final_df,    \* get_combined_ohlcv: the frame returned
    calendar     \* the days for which the exchange has OHLCV rows

VARIABLES
    val,         \* EcosAPI.parse_time: the token, a sequence of characters
    parsed,      \* EcosAPI.parse_time: what the call gave
    stat_rows,   \* process_data_stat_search: the rows of the response
    frame        \* process_data_stat_search: the frame returned

VARIABLES
    panel,       \* factor computation: the panel, a sequence of rows
    numer,       \* ratio_factor: the numerator, a column or a number
    series       \* factor computation: the column the call gave

VARIABLES
    wrapper,     \* the wrapper whose request is modelled
    response,    \* what requests.get did: the exception or the response
    outcome      \* how the request ended: the exception or the data

VARIABLES
    supplied,    \* compute_factors: the panel as the caller supplied it
    factor_dict, \* compute_factors: the mapping, in its iteration order
    zscore,      \* compute_factors: the zscore argument
    columns,     \* compute_factors: the names appended so far
    fi,          \* compute_factors: next position in factor_dict
    returned     \* compute_factors: the frame returned

VARIABLES
    per,             \* get_data_from_ecos: the period code
    ecos_start_date, \* get_data_from_ecos: start_date, its characters
    ecos_end_date,   \* get_data_from_ecos: end_date, its characters
    start_var,       \* get_data_from_ecos: the token made of start_date
    end_var,         \* get_data_from_ecos: the token made of end_date
    start_parsed,    \* what parse_time gives for start_var
    end_parsed       \* what parse_time gives for end_var

convVars == <<per, ecos_start_date, ecos_end_date, start_var, end_var,
              start_parsed, end_parsed>>
ecosVars == <<val, parsed, stat_rows, frame, convVars>>
computeVars == <<supplied, factor_dict, zscore, columns, fi, returned>>
factorVars == <<panel, numer, series, computeVars>>
httpVars == <<wrapper, response, outcome>>

\* the variables of the other wrappers and of the factor computation
restVars == <<ecosVars, factorVars, httpVars>>

\* EcosAPI is not in use
\* get_data_from_ecos is not in use
IdleConv ==
    /\ per = "none" /\ ecos_start_date = << >> /\ ecos_end_date = << >>
    /\ start_var = << >> /\ end_var = << >>
    /\ start_parsed = [kind |-> "none"] /\ end_parsed = [kind |-> "none"]

IdleEcos ==
    /\ val = << >> /\ parsed = [kind |-> "none"]
    /\ stat_rows = << >> /\ frame = [shape |-> "none"]
    /\ IdleConv

\* the factor computation is not in use
\* compute_factors is not in use
IdleCompute ==
    /\ supplied = << >> /\ factor_dict = << >> /\ zscore = FALSE
    /\ columns = << >> /\ fi = 0 /\ returned = << >>

IdleFactor ==
    /\ panel = << >> /\ numer = [is |-> "none"] /\ series = << >>
    /\ IdleCompute

\* no request is modelled
IdleHttp ==
    /\ wrapper = "none" /\ response = [transport |-> "none"]
    /\ outcome = [kind |-> "none"]

\* none of them is in use
IdleRest ==
    /\ IdleEcos /\ IdleFactor /\ IdleHttp

\* the variables of the Krx wrapper other than pc and ret
krxVars == <<df, sorted_df, results, compressed, start_date, end_date, di,
             records, prev_set, queries, all_dfs, fetched, final_df, calendar>>

\* the Krx wrapper is not in use
IdleKrx ==
    /\ df = << >> /\ sorted_df = << >> /\ results = << >>
    /\ compressed = << >>
    /\ start_date = 0 /\ end_date = 0 /\ di = 0
    /\ records = << >> /\ prev_set = << >> /\ queries = << >>
    /\ all_dfs = << >> /\ fetched = << >>
    /\ final_df = << >> /\ calendar = {}

vars == <<pc, df, sorted_df, results, ret, compressed, start_date, end_date,
          di, records, prev_set, queries, all_dfs, fetched, final_df,
          calendar, restVars>>

---------------------------------------------------------------------------
(* Bounds of the model *)

\* dates of the events given to build_ticker_periods are 1..MaxDate
MaxDate == 3
\* number of event rows given to build_ticker_periods
MaxEvents == 2

CodeList == <<"A", "B">>
Codes == {CodeList[i] : i \in 1..Len(CodeList)}
\* position of a code in the ascending order of the codes
Ord(c) == CHOOSE i \in 1..Len(CodeList) : CodeList[i] = c

SeqUpTo(S, n) == UNION {[1..k -> S] : k \in 0..n}

Min(S) == CHOOSE x \in S : \A y \in S : x <= y
Max(S) == CHOOSE x \in S : \A y \in S : x >= y

---------------------------------------------------------------------------
(* Krx.build_ticker_periods *)

\* a row of the event frame: date, added, removed
EventRows == [date : 1..MaxDate, added : SUBSET Codes, removed : SUBSET Codes]

\* df.sort_values("date"): every arrangement of the rows of d in ascending
\* date order.  The sort is not stable (quicksort), so rows of equal date
\* may come out in any order.
RECURSIVE SortIdx(_, _)
SortIdx(d, I) ==
    IF I = {} THEN {<< >>}
    ELSE LET m == Min({d[i].date : i \in I})
         IN UNION {{<<d[i]>> \o t : t \in SortIdx(d, I \ {i})} :
                       i \in {j \in I : d[j].date = m}}

SortValuesUnsorted(d) == {d}
SortValues(d) == SortIdx(d, DOMAIN d)

\* the loop state: active maps a code to its entry date (0: not in the dict),
\* res is the list of periods appended so far
EmptyActive == [c \in Codes |-> 0]

\* for code in row["added"]: active[code] = date
AddAll(active, row) ==
    [c \in Codes |-> IF c \in row.added THEN row.date ELSE active[c]]

RECURSIVE RemoveAllKeepActive(_, _, _, _)
RemoveAllKeepActive(active, res, row, todo) ==
    IF todo = {} THEN [active |-> active, res |-> res]
    ELSE LET c == CHOOSE x \in todo : \A y \in todo : Ord(x) <= Ord(y)
         IN IF active[c] # 0
            THEN RemoveAllKeepActive(active,
                                     Append(res, [code |-> c, start |-> active[c], end |-> row.date]),
                                     row, todo \ {c})
            ELSE RemoveAllKeepActive(active, res, row, todo \ {c})
RECURSIVE RemoveAllUnguarded(_, _, _, _)
RemoveAllUnguarded(active, res, row, todo) ==
    IF todo = {} THEN [active |-> active, res |-> res]
    ELSE LET c == CHOOSE x \in todo : \A y \in todo : Ord(x) <= Ord(y)
         IN RemoveAllUnguarded([active EXCEPT ![c] = 0],
                               Append(res, [code |-> c, start |-> active[c], end |-> row.date]),
                               row, todo \ {c})
\* for code in row["removed"]: if code in active: append a period, del active[code]
RECURSIVE RemoveAll(_, _, _, _)
RemoveAll(active, res, row, todo) ==
    IF todo = {} THEN [active |-> active, res |-> res]
    ELSE LET c == CHOOSE x \in todo : \A y \in todo : Ord(x) <= Ord(y)
         IN IF active[c] # 0
            THEN RemoveAll([active EXCEPT ![c] = 0],
                           Append(res, [code |-> c, start |-> active[c], end |-> row.date]),
                           row, todo \ {c})
            ELSE RemoveAll(active, res, row, todo \ {c})

ProcessRowRemovedFirst(st, row) ==
    LET r == RemoveAll(st.active, st.res, row, row.removed)
    IN [active |-> AddAll(r.active, row), res |-> r.res]
\* one iteration of "for date, row in df.iterrows()"
ProcessRow(st, row) ==
    RemoveAll(AddAll(st.active, row), st.res, row, row.removed)

RECURSIVE Loop(_, _, _)
Loop(st, s, i) ==
    IF i > Len(s) THEN st ELSE Loop(ProcessRow(st, s[i]), s, i + 1)

\* for code, start in active.items(): append (code, start, last_date).
\* The codes still in the dict are distinct, so the later sort by code makes
\* the dict's iteration order unobservable; they are appended in code order.
RECURSIVE CloseActive(_, _, _, _)
CloseActive(active, res, last_date, todo) ==
    IF todo = {} THEN res
    ELSE LET c == CHOOSE x \in todo : \A y \in todo : Ord(x) <= Ord(y)
         IN CloseActive(active,
                        IF active[c] # 0
                        THEN Append(res, [code |-> c, start |-> active[c], end |-> last_date])
                        ELSE res,
                        last_date, todo \ {c})

\* key order of sort_values(["code", "start"])
KeyLt(p, q) ==
    \/ Ord(p.code) < Ord(q.code)
    \/ p.code = q.code /\ p.start < q.start

\* DataFrame.sort_values on several columns is a stable sort: insertion of
\* each row after the rows whose key is not greater
RECURSIVE InsertStable(_, _)
InsertStable(s, p) ==
    IF s = << >> THEN <<p>>
    ELSE IF KeyLt(p, s[Len(s)])
         THEN Append(InsertStable(SubSeq(s, 1, Len(s) - 1), p), s[Len(s)])
         ELSE Append(s, p)

RECURSIVE SortCodeStart(_)
SortCodeStart(s) ==
    IF s = << >> THEN << >>
    ELSE InsertStable(SortCodeStart(SubSeq(s, 1, Len(s) - 1)), s[Len(s)])

\* The body of build_ticker_periods on the sorted frame s: the returned
\* periods, or the exception raised.  df.index[-1] of a frame without rows
\* raises IndexError; sort_values(["code","start"]) of pd.DataFrame([]),
\* which has no columns, raises KeyError.
LastDateFirstRow(s) == s[1].date
LastDate(s) == s[Len(s)].date

BuildOutcome(s) ==
    LET st == Loop([active |-> EmptyActive, res |-> << >>], s, 1)
    IN IF Len(s) = 0 THEN [ret |-> "IndexError", periods |-> << >>]
       ELSE LET all == CloseActive(st.active, st.res, LastDate(s), Codes)
            IN IF all = << >> THEN [ret |-> "KeyError", periods |-> << >>]
               ELSE [ret |-> "ok", periods |-> SortCodeStart(all)]

\* state shared by the specifications: nothing has been called
Idle ==
    /\ sorted_df = << >> /\ results = << >> /\ ret = "none"
    /\ compressed = << >>
    /\ start_date = 0 /\ end_date = 0 /\ di = 0
    /\ records = << >> /\ prev_set = << >> /\ queries = << >>
    /\ all_dfs = << >> /\ fetched = << >>
    /\ final_df = << >> /\ calendar = {}
    /\ IdleRest

InitPeriods ==
    /\ pc = "build_ticker_periods"
    /\ df \in SeqUpTo(EventRows, MaxEvents)
    /\ Idle

build_ticker_periods ==
    /\ pc = "build_ticker_periods"
    /\ \E s \in SortValues(df) :
          LET out == BuildOutcome(s)
          IN /\ sorted_df' = s
             /\ results' = out.periods
             /\ ret' = out.ret
    /\ pc' = "done"
    /\ UNCHANGED <<df, compressed, start_date, end_date, di, records,
                   prev_set, queries, all_dfs, fetched, final_df, calendar, restVars>>

NextPeriods == build_ticker_periods

SpecPeriods == InitPeriods /\ [][NextPeriods]_vars

---------------------------------------------------------------------------
(* Krx.compress_periods *)

\* number of period rows given to compress_periods
MaxPeriods == 3
\* start and end of the rows given to compress_periods are 1..MaxPeriodDate
MaxPeriodDate == 2

\* a row of a period frame: code, start, end
PeriodRows == [code : Codes, start : 1..MaxPeriodDate, end : 1..MaxPeriodDate]

\* groupby("code"): the group keys
GroupKeys(d) == {d[i].code : i \in DOMAIN d}

\* agg(start=("start","min"), end=("end","max")) of the group of code c
AggSwapped(d, c) ==
    [code |-> c,
     start |-> Max({d[i].end : i \in {j \in DOMAIN d : d[j].code = c}}),
     end |-> Min({d[i].start : i \in {j \in DOMAIN d : d[j].code = c}})]
AggFirst(d, c) ==
    LET k == Min({j \in DOMAIN d : d[j].code = c})
    IN [code |-> c, start |-> d[k].start, end |-> d[k].end]
Agg(d, c) ==
    [code |-> c,
     start |-> Min({d[i].start : i \in {j \in DOMAIN d : d[j].code = c}}),
     end |-> Max({d[i].end : i \in {j \in DOMAIN d : d[j].code = c}})]

\* one aggregated row per group key, the keys in ascending order (groupby
\* sorts its keys, and sort_values("code") sorts the distinct codes again)
RECURSIVE GroupRows(_, _)
GroupRows(d, keys) ==
    IF keys = {} THEN << >>
    ELSE LET c == CHOOSE x \in keys : \A y \in keys : Ord(x) <= Ord(y)
         IN <<Agg(d, c)>> \o GroupRows(d, keys \ {c})

CompressPeriods(d) == GroupRows(d, GroupKeys(d))

InitCompress ==
    /\ pc = "compress_periods"
    /\ df \in SeqUpTo(PeriodRows, MaxPeriods)
    /\ Idle

\* compress_periods(df)
compress_periods ==
    /\ pc = "compress_periods"
    /\ compressed' = CompressPeriods(df)
    /\ pc' = "compressed"
    /\ UNCHANGED <<df, sorted_df, results, ret, start_date, end_date, di,
                   records, prev_set, queries, all_dfs, fetched, final_df, calendar, restVars>>

\* compress_periods applied to the frame the first call returned
compress_again ==
    /\ pc = "compressed"
    /\ df' = compressed
    /\ compressed' = CompressPeriods(compressed)
    /\ pc' = "compressed_twice"
    /\ UNCHANGED <<sorted_df, results, ret, start_date, end_date, di,
                   records, prev_set, queries, all_dfs, fetched, final_df, calendar, restVars>>

NextCompress == compress_periods \/ compress_again

SpecCompress == InitCompress /\ [][NextCompress]_vars

---------------------------------------------------------------------------
(* Krx.get_index_deposit *)

\* start_date and end_date are days of 1..MaxDay; day 1 is a Monday
MaxDay == 7

\* The dates are given as "YYYYMMDD", as the docstring requires, and
\* d.strftime("%Y%m%d") writes a date the same way: a date string is
\* identified with its day, and strings are equal iff their days are.

\* freq="B": Monday to Friday
IsBusinessDay(d) == ((d - 1) % 7) < 5

\* pd.date_range(start_date, end_date, freq="B")
DateRangeEveryDay(s, e) == [i \in 1..(e - s + 1) |-> s + i - 1]
RECURSIVE DateRange(_, _)
DateRange(s, e) ==
    IF s > e THEN << >>
    ELSE IF IsBusinessDay(s) THEN <<s>> \o DateRange(s + 1, e)
         ELSE DateRange(s + 1, e)

\* what stock.get_index_portfolio_deposit_file gives for one date:
\* << >> when it raises, <<S>> when it returns the codes S
QueryOutcomes == {<< >>} \cup {<<S>> : S \in SUBSET Codes}

\* the two "continue" branches: the query raised, or "not cur_set"
SkippedOnlyRaise(got) == got = << >>
Skipped(got) == got = << >> \/ got[1] = {}

AddedSwapped(cur, prev) == prev \ cur
\* added = cur_set - prev_set
Added(cur, prev) == cur \ prev
\* removed = prev_set - cur_set
Removed(cur, prev) == prev \ cur

\* the body of "for d in dates" after the query returned got
LoopBody(recs, prev, d, got) ==
    IF Skipped(got) THEN [records |-> recs, prev_set |-> prev]
    ELSE LET cur_set == got[1]
         IN IF prev = << >>
            THEN [records |-> Append(recs, [date |-> d, codes |-> cur_set,
                                            added |-> cur_set, removed |-> {}]),
                  prev_set |-> <<cur_set>>]
            ELSE IF cur_set = prev[1]
                 THEN [records |-> recs, prev_set |-> prev]
                 ELSE [records |-> Append(recs, [date |-> d, codes |-> cur_set,
                                                 added |-> Added(cur_set, prev[1]),
                                                 removed |-> Removed(cur_set, prev[1])]),
                       prev_set |-> <<cur_set>>]

TrailingAlways(recs, last_bday_str) == recs # << >>
TrailingNever(recs, last_bday_str) == FALSE
\* records and records[-1]["date"] != last_bday_str
TrailingNeeded(recs, last_bday_str) ==
    recs # << >> /\ recs[Len(recs)].date # last_bday_str

\* the records after the loop, with the trailing record when it is needed
WithTrailing(recs, prev, last_bday_str) ==
    IF TrailingNeeded(recs, last_bday_str)
    THEN Append(recs, [date |-> last_bday_str, codes |-> prev[1],
                       added |-> {}, removed |-> {}])
    ELSE recs

InitDeposit ==
    /\ pc = "get_index_deposit"
    /\ start_date \in 1..MaxDay
    /\ end_date \in 1..MaxDay
    /\ di = 1
    /\ records = << >> /\ prev_set = << >> /\ queries = << >>
    /\ df = << >> /\ sorted_df = << >> /\ results = << >> /\ ret = "none"
    /\ compressed = << >> /\ all_dfs = << >> /\ fetched = << >>
    /\ final_df = << >> /\ calendar = {}
    /\ IdleRest

\* one iteration of "for d in dates": the query for dates[di] and the
\* branch its outcome selects
query_snapshot ==
    /\ pc = "get_index_deposit"
    /\ di <= Len(DateRange(start_date, end_date))
    /\ \E got \in QueryOutcomes :
          LET d == DateRange(start_date, end_date)[di]
              nxt == LoopBody(records, prev_set, d, got)
          IN /\ queries' = Append(queries, [date |-> d, got |-> got])
             /\ records' = nxt.records
             /\ prev_set' = nxt.prev_set
    /\ di' = di + 1
    /\ UNCHANGED <<pc, df, sorted_df, results, ret, compressed, start_date,
                   end_date, all_dfs, fetched, final_df, calendar, restVars>>

\* after the loop: the trailing record, then the empty frame when nothing
\* was recorded, else build_ticker_periods on the records
deposit_return ==
    /\ pc = "get_index_deposit"
    /\ di > Len(DateRange(start_date, end_date))
    /\ LET recs == WithTrailing(records, prev_set, end_date)
       IN /\ records' = recs
          /\ IF recs = << >>
             THEN /\ results' = << >> /\ ret' = "ok"
                  /\ UNCHANGED <<df, sorted_df>>
             ELSE /\ df' = recs
                  /\ \E s \in SortValues(recs) :
                        LET out == BuildOutcome(s)
                        IN /\ sorted_df' = s
                           /\ results' = out.periods
                           /\ ret' = out.ret
    /\ pc' = "done"
    /\ UNCHANGED <<compressed, start_date, end_date, di, prev_set, queries,
                   all_dfs, fetched, final_df, calendar, restVars>>

NextDeposit == query_snapshot \/ deposit_return

SpecDeposit == InitDeposit /\ [][NextDeposit]_vars

---------------------------------------------------------------------------
(* Krx.get_combined_ohlcv *)

\* number of period rows given to get_combined_ohlcv
MaxOhlcvRows == 2
\* start and end of those rows, and the days of the calendar, are 1..MaxOhlcvDate
MaxOhlcvDate == 3

OhlcvRows == [code : Codes, start : 1..MaxOhlcvDate, end : 1..MaxOhlcvDate]

\* stock.get_market_ohlcv_by_date(start, end, code): the days of the range
\* for which the exchange has a row
OhlcvQuery(cal, start, end) == {d \in cal : start <= d /\ d <= end}

\* (ohlcv['date'] >= orig_start) & (ohlcv['date'] <= orig_end)
InWindow(p, d) == p.start <= d /\ d <= p.end

\* ohlcv[mask]: the mask is the OR, over the rows of d of this code (with
\* their orig_start and orig_end), of the window test
MaskCompressed(d, row, dates) == {x \in dates : InWindow(row, x)}
Mask(d, row, dates) ==
    {x \in dates : \E i \in DOMAIN d : d[i].code = row.code /\ InWindow(d[i], x)}

\* pd.concat(all_dfs).sort_values(['date', 'code']): the rows are distinct
\* in (date, code), so the sorted frame is determined by the set of rows
RowLt(a, b) == a.date < b.date \/ (a.date = b.date /\ Ord(a.code) < Ord(b.code))

RECURSIVE SortDateCode(_)
SortDateCode(S) ==
    IF S = {} THEN << >>
    ELSE LET r == CHOOSE x \in S : \A y \in S \ {x} : RowLt(x, y)
         IN <<r>> \o SortDateCode(S \ {r})

Concat(dfs) ==
    UNION {{[date |-> x, code |-> dfs[k].code] : x \in dfs[k].dates} : k \in DOMAIN dfs}

InitOhlcv ==
    /\ pc = "get_combined_ohlcv"
    /\ df \in SeqUpTo(OhlcvRows, MaxOhlcvRows)
    /\ calendar \in SUBSET (1..MaxOhlcvDate)
    /\ sorted_df = << >> /\ results = << >> /\ ret = "none"
    /\ compressed = << >>
    /\ start_date = 0 /\ end_date = 0 /\ di = 0
    /\ records = << >> /\ prev_set = << >> /\ queries = << >>
    /\ all_dfs = << >> /\ fetched = << >> /\ final_df = << >>
    /\ IdleRest

\* the entry of get_combined_ohlcv: the empty frame is returned at once,
\* else the periods are compressed
ohlcv_begin ==
    /\ pc = "get_combined_ohlcv"
    /\ IF df = << >>
       THEN /\ pc' = "done" /\ ret' = "ok"
            /\ UNCHANGED <<compressed, di>>
       ELSE /\ pc' = "ohlcv_loop" /\ di' = 1
            /\ compressed' = CompressPeriods(df)
            /\ UNCHANGED ret
    /\ UNCHANGED <<df, sorted_df, results, start_date, end_date, records,
                   prev_set, queries, all_dfs, fetched, final_df, calendar, restVars>>

\* one iteration of "for _, row in df_compressed.iterrows()"
ohlcv_query ==
    /\ pc = "ohlcv_loop"
    /\ di <= Len(compressed)
    /\ LET row == compressed[di]
           ohlcv == OhlcvQuery(calendar, row.start, row.end)
       IN /\ queries' = Append(queries, row)
          /\ fetched' = Append(fetched, [code |-> row.code, dates |-> ohlcv])
          /\ all_dfs' = Append(all_dfs, [code |-> row.code,
                                         dates |-> Mask(df, row, ohlcv)])
    /\ di' = di + 1
    /\ UNCHANGED <<pc, df, sorted_df, results, ret, compressed, start_date,
                   end_date, records, prev_set, final_df, calendar, restVars>>

\* after the loop: concat, sort by (date, code), return
ohlcv_return ==
    /\ pc = "ohlcv_loop"
    /\ di > Len(compressed)
    /\ final_df' = SortDateCode(Concat(all_dfs))
    /\ ret' = "ok"
    /\ pc' = "done"
    /\ UNCHANGED <<df, sorted_df, results, compressed, start_date, end_date,
                   di, records, prev_set, queries, all_dfs, fetched, calendar, restVars>>

NextOhlcv == ohlcv_begin \/ ohlcv_query \/ ohlcv_return

SpecOhlcv == InitOhlcv /\ [][NextOhlcv]_vars

---------------------------------------------------------------------------
(* EcosAPI.parse_time (src/funcs/ecos.py) *)

\* A token is the sequence of the characters of str(val).

\* the month field of the generated tokens is 0..MaxMonthField
MaxMonthField == 13
\* the day field of the generated tokens is 0..MaxDayField
MaxDayField == 32

\* the years of the generated tokens; 0 is the year "0000"
Years == {0, 2023, 2024}

DigitChars == <<"0", "1", "2", "3", "4", "5", "6", "7", "8", "9">>

\* the decimal digit of n, 0 <= n <= 9
Dig(n) == DigitChars[n + 1]
\* n written with two and with four decimal digits
D2(n) == <<Dig(n \div 10), Dig(n % 10)>>
D4(n) == <<Dig(n \div 1000), Dig((n \div 100) % 10), Dig((n \div 10) % 10), Dig(n % 10)>>

\* tokens of the six shapes; the fields may be out of calendar range
ShapedTokens ==
    UNION {
        {D4(y)}
        \cup {D4(y) \o D2(m) : m \in 0..MaxMonthField}
        \cup {D4(y) \o D2(m) \o D2(d) : m \in 0..MaxMonthField, d \in 0..MaxDayField}
        \cup {D4(y) \o <<"Q", Dig(n)>> : n \in 0..5}
        \cup {D4(y) \o <<"S", Dig(n)>> : n \in 0..3}
        \cup {D4(y) \o D2(m) \o <<"S", Dig(n)>> : m \in 0..MaxMonthField, n \in 0..3}
        : y \in Years}

\* a token and what a malformed source makes of it: a line end or a digit
\* appended, a blank in front, the last character lost, a lower-case letter
Variants(t) ==
    {t, t \o <<"\n">>, t \o <<"0">>, <<" ">> \o t, SubSeq(t, 1, Len(t) - 1),
     [i \in DOMAIN t |-> IF t[i] = "Q" THEN "q" ELSE IF t[i] = "S" THEN "s" ELSE t[i]]}

NotADate == <<"n", "o", "t", "-", "a", "-", "d", "a", "t", "e">>

TimeTokens == UNION {Variants(t) : t \in ShapedTokens} \cup {NotADate, << >>}

\* \d
IsDigit(ch) == \E i \in DOMAIN DigitChars : DigitChars[i] = ch
AllDigits(s) == \A i \in DOMAIN s : IsDigit(s[i])

\* int(s) of a string of digits
RECURSIVE IntOf(_)
IntOf(s) ==
    IF s = << >> THEN 0
    ELSE 10 * IntOf(SubSeq(s, 1, Len(s) - 1))
         + ((CHOOSE i \in DOMAIN DigitChars : DigitChars[i] = s[Len(s)]) - 1)

\* "$" also matches before a line end that ends the string
BeforeDollar(t) ==
    IF t # << >> /\ t[Len(t)] = "\n" THEN SubSeq(t, 1, Len(t) - 1) ELSE t

\* time_pattern.match(str(val)): the groups of the match, each << >> when it
\* took no part, or NoMatch
NoMatch == [matched |-> FALSE]
Groups(y, m, d, sm, q, s) ==
    [matched |-> TRUE, y |-> y, m |-> m, d |-> d, sm |-> sm, q |-> q, s |-> s]

Match(t) ==
    LET u == BeforeDollar(t)
        n == Len(u)
    IN IF n < 4 \/ ~AllDigits(SubSeq(u, 1, 4)) THEN NoMatch
       ELSE LET y == SubSeq(u, 1, 4)
            IN IF n = 4 THEN Groups(y, << >>, << >>, << >>, << >>, << >>)
               ELSE IF n = 6 /\ AllDigits(SubSeq(u, 5, 6))
                    THEN Groups(y, SubSeq(u, 5, 6), << >>, << >>, << >>, << >>)
               ELSE IF n = 6 /\ u[5] = "Q" /\ u[6] \in {"1", "2", "3", "4"}
                    THEN Groups(y, << >>, << >>, << >>, <<u[6]>>, << >>)
               ELSE IF n = 6 /\ u[5] = "S" /\ u[6] \in {"1", "2"}
                    THEN Groups(y, << >>, << >>, << >>, << >>, <<u[6]>>)
               ELSE IF n = 8 /\ AllDigits(SubSeq(u, 5, 8))
                    THEN Groups(y, SubSeq(u, 5, 6), SubSeq(u, 7, 8), << >>, << >>, << >>)
               ELSE IF n = 8 /\ AllDigits(SubSeq(u, 5, 6)) /\ u[7] = "S" /\ u[8] \in {"1", "2"}
                    THEN Groups(y, SubSeq(u, 5, 6), << >>, <<u[8]>>, << >>, << >>)
               ELSE NoMatch

IsLeap(y) == (y % 4 = 0 /\ y % 100 # 0) \/ y % 400 = 0
DaysInMonth(y, m) ==
    IF m = 2 THEN (IF IsLeap(y) THEN 29 ELSE 28)
    ELSE IF m \in {4, 6, 9, 11} THEN 30 ELSE 31

NaT == [kind |-> "NaT"]
Date(y, m, d) == [kind |-> "date", y |-> y, m |-> m, d |-> d]

\* pd.Timestamp(y, month, day): the date, or ValueError when the year, the
\* month or the day is out of range
Timestamp(y, m, d) ==
    IF y >= 1 /\ m \in 1..12 /\ d \in 1..DaysInMonth(y, m)
    THEN Date(y, m, d)
    ELSE [kind |-> "ValueError"]

QuarterMonthOff(q) == q * 3 + 1
\* month = (int(m["q"]) - 1) * 3 + 1
QuarterMonth(q) == (q - 1) * 3 + 1
\* month = (int(m["s"]) - 1) * 6 + 1
HalfMonth(s) == (s - 1) * 6 + 1
\* day = 1 if m["sm"] == "1" else 16
SemiDay(sm) == IF sm = <<"1">> THEN 1 ELSE 16

\* the body of parse_time
ParseTime(t) ==
    LET g == Match(t)
    IN IF ~g.matched THEN NaT
       ELSE LET y == IntOf(g.y)
            IN IF g.q # << >> THEN Timestamp(y, QuarterMonth(IntOf(g.q)), 1)
               ELSE IF g.s # << >> THEN Timestamp(y, HalfMonth(IntOf(g.s)), 1)
               ELSE IF g.sm # << >> THEN Timestamp(y, IntOf(g.m), SemiDay(g.sm))
               ELSE IF g.d # << >> THEN Timestamp(y, IntOf(g.m), IntOf(g.d))
               ELSE IF g.m # << >> THEN Timestamp(y, IntOf(g.m), 1)
               ELSE Timestamp(y, 1, 1)

InitParse ==
    /\ pc = "parse_time"
    /\ val \in TimeTokens
    /\ parsed = [kind |-> "none"]
    /\ stat_rows = << >> /\ frame = [shape |-> "none"]
    /\ ret = "none"
    /\ IdleKrx /\ IdleFactor /\ IdleHttp /\ IdleConv

\* parse_time(val)
parse_time ==
    /\ pc = "parse_time"
    /\ parsed' = ParseTime(val)
    /\ ret' = (IF ParseTime(val).kind = "ValueError" THEN "ValueError" ELSE "ok")
    /\ pc' = "done"
    /\ UNCHANGED <<val, stat_rows, frame, convVars, krxVars, factorVars, httpVars>>

NextParse == parse_time

SpecParse == InitParse /\ [][NextParse]_vars

---------------------------------------------------------------------------
(* EcosAPI.process_data_stat_search (src/funcs/ecos.py) *)

\* A row of the response holds its TIME token, its DATA_VALUE after
\* pd.to_numeric (<< >> for NaN, <<v>> for the number v) and its ITEM_NAME1
\* (<< >> for null, <<s>> for the string s); the deeper item names are
\* absent.

\* the responses have at most MaxStatRows rows
MaxStatRows == 2

StatTokens == {D4(2023), D4(2024), D4(2023) \o D2(13), NotADate}

StatRows ==
    [TIME : StatTokens, DATA_VALUE : {<< >>, <<1>>, <<2>>},
     ITEM_NAME1 : {<< >>, <<"x">>, <<"y">>}]

\* the order of the dates
DateKey(t) == t.y * 10000 + t.m * 100 + t.d

RECURSIVE SortIndex(_)
\* the dates of S in ascending order
SortIndex(S) ==
    IF S = {} THEN << >>
    ELSE LET m == CHOOSE x \in S : \A y \in S : DateKey(x) <= DateKey(y)
         IN <<m>> \o SortIndex(S \ {m})

\* df[name_col].astype(str).str.strip(), one row
ColOf(row) == IF row.ITEM_NAME1 = << >> THEN "None" ELSE row.ITEM_NAME1[1]

\* the keys the grouping of pivot_table keeps: it drops the rows whose
\* index key is NaT
PivotKept(times) == {i \in DOMAIN times : times[i] # NaT}

\* aggfunc="first": the first value that is not NaN among the rows of the
\* group (t, c), << >> when there is none
First(rs, times, t, c) ==
    LET G == {i \in PivotKept(times) : times[i] = t /\ ColOf(rs[i]) = c /\ rs[i].DATA_VALUE # << >>}
    IN IF G = {} THEN << >>
       ELSE rs[CHOOSE i \in G : \A j \in G : i <= j].DATA_VALUE

\* df.pivot_table(index="TIME", columns="col", values="DATA_VALUE",
\* aggfunc="first").sort_index(): the groups with no value are dropped
PivotTable(rs, times) ==
    LET keys == {<<times[i], ColOf(rs[i])>> : i \in PivotKept(times)}
        agged == {k \in keys : First(rs, times, k[1], k[2]) # << >>}
        index == SortIndex({k[1] : k \in agged})
        labels == {k[2] : k \in agged}
    IN [j \in DOMAIN index |->
          [TIME |-> index[j],
           cells |-> [c \in labels |-> First(rs, times, index[j], c)]]]

\* the body of process_data_stat_search
ProcessDataStatSearch(rs) ==
    LET times == [i \in DOMAIN rs |-> ParseTime(rs[i].TIME)]
    IN IF rs = << >> THEN [ret |-> "ok", shape |-> "empty", rows |-> << >>]
       ELSE IF \E i \in DOMAIN rs : times[i].kind = "ValueError"
            THEN [ret |-> "ValueError", shape |-> "none", rows |-> << >>]
       ELSE IF \A i \in DOMAIN rs : rs[i].ITEM_NAME1 = << >>
            THEN [ret |-> "ok", shape |-> "single",
                  rows |-> [i \in DOMAIN rs |->
                              [TIME |-> times[i], value |-> rs[i].DATA_VALUE]]]
       ELSE [ret |-> "ok", shape |-> "pivot", rows |-> PivotTable(rs, times)]

InitStat ==
    /\ pc = "process_data_stat_search"
    /\ stat_rows \in SeqUpTo(StatRows, MaxStatRows)
    /\ frame = [shape |-> "none"]
    /\ val = << >> /\ parsed = [kind |-> "none"]
    /\ ret = "none"
    /\ IdleKrx /\ IdleFactor /\ IdleHttp /\ IdleConv

\* process_data_stat_search(data)
process_data_stat_search ==
    /\ pc = "process_data_stat_search"
    /\ frame' = [shape |-> ProcessDataStatSearch(stat_rows).shape,
                 rows |-> ProcessDataStatSearch(stat_rows).rows]
    /\ ret' = ProcessDataStatSearch(stat_rows).ret
    /\ pc' = "done"
    /\ UNCHANGED <<val, parsed, stat_rows, convVars, krxVars, factorVars, httpVars>>

NextStat == process_data_stat_search

SpecStat == InitStat /\ [][NextStat]_vars

---------------------------------------------------------------------------
(* The date conversion of EcosAPI.get_data_from_ecos (src/funcs/ecos.py) *)

\* the days of the month of the generated dates
ConvDays == {1, 15, 16, 28}

\* the valid YYYYMMDD dates given as start_date and end_date
ConvDates == {D4(2024) \o D2(m) \o D2(d) : m \in 1..12, d \in ConvDays}

\* the period codes given; X is not supported
PeriodCodes == {"A", "Q", "M", "D", "S", "SM", "X"}

\* per in period_map
Supported(p) == p \in {"A", "Q", "M", "D", "S", "SM"}

\* period_map[per](d)
PeriodMap(p, d) ==
    IF p = "A" THEN SubSeq(d, 1, 4)
    ELSE IF p = "Q" THEN SubSeq(d, 1, 4) \o <<"Q", "1">>
    ELSE IF p = "M" THEN SubSeq(d, 1, 6)
    ELSE IF p = "D" THEN d
    ELSE IF p = "S" THEN SubSeq(d, 1, 4) \o <<"S", "1">>
    ELSE SubSeq(d, 1, 6) \o <<"S", "1">>

InitConv ==
    /\ pc = "get_data_from_ecos"
    /\ per \in PeriodCodes
    /\ ecos_start_date \in ConvDates
    /\ ecos_end_date \in ConvDates
    /\ start_var = << >> /\ end_var = << >>
    /\ start_parsed = [kind |-> "none"] /\ end_parsed = [kind |-> "none"]
    /\ val = << >> /\ parsed = [kind |-> "none"]
    /\ stat_rows = << >> /\ frame = [shape |-> "none"]
    /\ ret = "none"
    /\ IdleKrx /\ IdleFactor /\ IdleHttp

\* the check of per and the two conversions, for one code of codes
convert_dates ==
    /\ pc = "get_data_from_ecos"
    /\ IF Supported(per)
       THEN /\ start_var' = PeriodMap(per, ecos_start_date)
            /\ end_var' = PeriodMap(per, ecos_end_date)
            /\ pc' = "converted"
            /\ UNCHANGED ret
       ELSE /\ ret' = "ValueError"
            /\ pc' = "done"
            /\ UNCHANGED <<start_var, end_var>>
    /\ UNCHANGED <<per, ecos_start_date, ecos_end_date, start_parsed, end_parsed,
                   val, parsed, stat_rows, frame, krxVars, factorVars, httpVars>>

\* parse_time applied to the two tokens
parse_tokens ==
    /\ pc = "converted"
    /\ start_parsed' = ParseTime(start_var)
    /\ end_parsed' = ParseTime(end_var)
    /\ pc' = "parsed"
    /\ UNCHANGED <<ret, per, ecos_start_date, ecos_end_date, start_var, end_var,
                   val, parsed, stat_rows, frame, krxVars, factorVars, httpVars>>

NextConv == convert_dates \/ parse_tokens

SpecConv == InitConv /\ [][NextConv]_vars

---------------------------------------------------------------------------
(* ratio_factor (src/processData/factorComputing.py) and safe_div          *)
(* (src/processData/DataProcessUtils.py)                                   *)

\* A float is NaN, an infinity, or the finite quotient n/d of two integers,
\* d > 0.  A panel row of ratio_factor holds the numerator column a and the
\* denominator column b.

\* the finite values of the generated panels are -1..MaxVal
MaxVal == 2
\* the generated panels have at most MaxPanelRows rows
MaxPanelRows == 2

NaN == [k |-> "nan"]
Inf(sign) == [k |-> "inf", sign |-> sign]
Fin(n, d) == [k |-> "fin", n |-> n, d |-> d]

Floats == {Fin(n, 1) : n \in -1..MaxVal} \cup {NaN, Inf(1), Inf(-1)}

IsZero(x) == x.k = "fin" /\ x.n = 0
Sign(x) == IF x.k = "inf" THEN x.sign ELSE IF x.n < 0 THEN -1 ELSE 1

\* x / y of two floats, as numpy divides
Div(x, y) ==
    IF x.k = "nan" \/ y.k = "nan" THEN NaN
    ELSE IF IsZero(y) THEN (IF IsZero(x) THEN NaN ELSE Inf(Sign(x)))
    ELSE IF x.k = "inf" THEN (IF y.k = "inf" THEN NaN ELSE Inf(x.sign * Sign(y)))
    ELSE IF y.k = "inf" THEN Fin(0, 1)
    ELSE Fin(x.n * y.d * Sign(y), x.d * y.n * Sign(y))

\* denom.replace(0, np.nan), one value
ReplaceZero(y) == IF IsZero(y) THEN NaN ELSE y

\* result.replace([np.inf, -np.inf], np.nan), one value
ReplaceInf(x) == IF x.k = "inf" THEN NaN ELSE x

\* safe_div(numer, denom), row by row; numer is a column or one number
safe_div(n, denom) ==
    [i \in DOMAIN denom |->
        LET x == IF n.const THEN n.v ELSE n.col[i]
        IN ReplaceInf(Div(x, ReplaceZero(denom[i])))]

\* the names a factor of ratio_factor can see: the imports and the
\* functions of the module factorComputing, and the names of its closure
ModuleNames ==
    {"Callable", "Dict", "List", "Optional", "np", "pd", "DataProcessUtils",
     "ratio_factor", "pct_change_factor", "rolling_stat_factor",
     "momentum_factor", "ma_factor", "parkinson_vol_factor",
     "volume_surge_factor", "amihud_factor", "log_factor", "accrual_factor",
     "ev_ebit_factor", "cs_zscore", "compute_factors",
     "numer", "denom", "df"}

\* the column of df
Column(p, c) == [i \in DOMAIN p |-> p[i][c]]

\* factor(df) of ratio_factor(numer, denom): the outcome and the column
RatioFactor(n, p) ==
    IF "processUtils" \notin ModuleNames
    THEN [ret |-> "NameError", series |-> << >>]
    ELSE [ret |-> "ok",
          series |-> safe_div(IF n.is = "column"
                              THEN [const |-> FALSE, col |-> Column(p, n.name)]
                              ELSE [const |-> TRUE, v |-> n.v],
                              Column(p, "b"))]

RatioRows == [a : Floats, b : Floats]

InitRatio ==
    /\ pc = "ratio_factor"
    /\ panel \in SeqUpTo(RatioRows, MaxPanelRows)
    /\ numer \in {[is |-> "column", name |-> "a"],
                 [is |-> "number", v |-> Fin(1, 1)],
                 [is |-> "number", v |-> Fin(0, 1)]}
    /\ series = << >>
    /\ ret = "none"
    /\ IdleKrx /\ IdleEcos /\ IdleHttp /\ IdleCompute

\* ratio_factor(numer, "b")(panel)
ratio_factor ==
    /\ pc = "ratio_factor"
    /\ series' = RatioFactor(numer, panel).series
    /\ ret' = RatioFactor(numer, panel).ret
    /\ pc' = "done"
    /\ UNCHANGED <<panel, numer, computeVars, krxVars, ecosVars, httpVars>>

\* DataProcessUtils.safe_div(panel["a"], panel["b"]), called by its own name
safe_div_call ==
    /\ pc = "ratio_factor"
    /\ numer.is = "column"
    /\ series' = safe_div([const |-> FALSE, col |-> Column(panel, numer.name)],
                          Column(panel, "b"))
    /\ ret' = "ok"
    /\ pc' = "divided"
    /\ UNCHANGED <<panel, numer, computeVars, krxVars, ecosVars, httpVars>>

NextRatio == ratio_factor \/ safe_div_call

SpecRatio == InitRatio /\ [][NextRatio]_vars

---------------------------------------------------------------------------
(* cs_zscore (src/processData/factorComputing.py) *)

\* A panel row of cs_zscore holds its Date and the value x of the column,
\* an integer.  A z-score is NaN or the finite number
\* (dev[1]/dev[2]) / (sqrt(var[1]/var[2]) + eps[1]/eps[2]); the divisor is
\* positive, eps being positive.

\* the generated panels have at most MaxZRows rows
MaxZRows == 3
\* their dates are 1..MaxZDate
MaxZDate == 2
\* their values are 1..MaxZVal
MaxZVal == 3

\* eps = 1e-8, as 1/EpsInv
EpsInv == 100000000

\* pandas' Series.std divides by n - 1
Ddof == 1

ZRows == [Date : 1..MaxZDate, x : 1..MaxZVal]

\* the rows of a group of df.groupby("Date")
GroupOf(p, d) == {i \in DOMAIN p : p[i].Date = d}

RECURSIVE SumOver(_, _)
\* the sum of f over the finite set S
SumOver(f, S) ==
    IF S = {} THEN 0
    ELSE LET i == CHOOSE j \in S : TRUE IN f[i] + SumOver(f, S \ {i})

\* x.mean() of the group G, as <<numerator, denominator>>
MeanOf(p, G) == <<SumOver([i \in G |-> p[i].x], G), Cardinality(G)>>

\* x.std() of the group G: NaN when G has no more than Ddof rows, else the
\* variance under the root, as <<numerator, denominator>>
StdOf(p, G) ==
    LET n == Cardinality(G)
        s == SumOver([i \in G |-> p[i].x], G)
        q == SumOver([i \in G |-> p[i].x * p[i].x], G)
    IN IF n - Ddof <= 0 THEN NaN
       ELSE [k |-> "fin", var |-> <<n * q - s * s, n * (n - Ddof)>>]

\* (x - x.mean()) / (x.std() + eps), one row of the group
ZOf(x, mean, std) ==
    IF std.k = "nan" THEN NaN
    ELSE [k |-> "fin", dev |-> <<x * mean[2] - mean[1], mean[2]>>,
          var |-> std.var, eps |-> <<1, EpsInv>>]

\* cs_zscore(df, col)
CsZscore(p) ==
    [i \in DOMAIN p |->
        LET G == GroupOf(p, p[i].Date)
        IN ZOf(p[i].x, MeanOf(p, G), StdOf(p, G))]

InitZscore ==
    /\ pc = "cs_zscore"
    /\ panel \in SeqUpTo(ZRows, MaxZRows)
    /\ numer = [is |-> "none"]
    /\ series = << >>
    /\ ret = "none"
    /\ IdleKrx /\ IdleEcos /\ IdleHttp /\ IdleCompute

\* cs_zscore(panel, "x")
cs_zscore ==
    /\ pc = "cs_zscore"
    /\ series' = CsZscore(panel)
    /\ ret' = "ok"
    /\ pc' = "done"
    /\ UNCHANGED <<panel, numer, computeVars, krxVars, ecosVars, httpVars>>

NextZscore == cs_zscore

SpecZscore == InitZscore /\ [][NextZscore]_vars

---------------------------------------------------------------------------
(* compute_factors and log_factor (src/processData/factorComputing.py) *)

\* A frame is the sequence of its rows, a row a function from column names
\* to values.  The panels have the columns Date, a and b.  A value of a
\* column other than Date is a term, the sequence of the symbols that
\* write it: a digit, log(...) of a term, or the z-score of a term among
\* the terms of its date.  The float32 cast of astype is left out of the
\* terms.

\* the panels have at most MaxFRows rows
MaxFRows == 2
\* the mappings have at most MaxFactors factors
MaxFactors == 2

\* the dates, written like the values
FDates == {<<"d1">>, <<"d2">>}
FValues == {<<"1">>, <<"2">>}
FRows == [{"Date", "a", "b"} -> FDates \cup FValues]

\* the panels: Date holds a date, a and b hold values
Panels ==
    {p \in SeqUpTo(FRows, MaxFRows) :
        \A i \in DOMAIN p : p[i]["Date"] \in FDates /\ p[i]["a"] \in FValues
                            /\ p[i]["b"] \in FValues}

\* the factor names of the mappings; a is also a column of the panel
FactorNames == {"a", "f", "g"}

\* an entry of the mapping: name -> log_factor(col)
Entries == [name : FactorNames, col : {"a", "b"}]

\* the mappings: a dict has each name once
FactorDicts ==
    {d \in SeqUpTo(Entries, MaxFactors) :
        \A j, k \in DOMAIN d : j # k => d[j].name # d[k].name}

\* np.log(v)
Log(v) == <<"log", "(">> \o v \o <<")">>

\* log_factor(col)(df)
LogFactor(frm, col) == [i \in DOMAIN frm |-> Log(frm[i][col])]

\* df[name] = column
SetCol(frm, name, column) ==
    [i \in DOMAIN frm |->
        [c \in DOMAIN frm[i] \cup {name} |-> IF c = name THEN column[i] ELSE frm[i][c]]]

RECURSIVE Flatten(_, _, _)
\* the terms of column name on the rows I of frm, in row order
Flatten(frm, name, I) ==
    IF I = {} THEN << >>
    ELSE LET i == Min(I)
         IN frm[i][name] \o <<",">> \o Flatten(frm, name, I \ {i})

\* cs_zscore(df, name): the z-score of each row among the rows of its date
ZCol(frm, name) ==
    [i \in DOMAIN frm |->
        <<"z", "(">> \o frm[i][name] \o <<"|">>
        \o Flatten(frm, name, {j \in DOMAIN frm : frm[j]["Date"] = frm[i]["Date"]})
        \o <<")">>]

\* zname = f"{name}_Z"
ZName(name) == name \o "_Z"

\* one iteration of the loop of compute_factors on the frame frm
ApplyFactor(frm, e, z) ==
    LET p1 == SetCol(frm, e.name, LogFactor(frm, e.col))
    IN IF z THEN SetCol(p1, ZName(e.name), ZCol(p1, e.name)) ELSE p1

\* df[columns]
Select(frm, cols) ==
    [i \in DOMAIN frm |-> [c \in {cols[k] : k \in DOMAIN cols} |-> frm[i][c]]]

InitCompute ==
    /\ pc = "compute_factors"
    /\ panel \in Panels
    /\ supplied = panel
    /\ factor_dict \in FactorDicts
    /\ zscore \in BOOLEAN
    /\ columns = << >>
    /\ fi = 1
    /\ returned = << >>
    /\ numer = [is |-> "none"] /\ series = << >>
    /\ ret = "none"
    /\ IdleKrx /\ IdleEcos /\ IdleHttp

\* one iteration of "for i, (name, func) in enumerate(factor_dict.items(), 1)"
apply_factor ==
    /\ pc = "compute_factors"
    /\ fi <= Len(factor_dict)
    /\ panel' = ApplyFactor(panel, factor_dict[fi], zscore)
    /\ columns' = (IF zscore
                   THEN columns \o <<factor_dict[fi].name, ZName(factor_dict[fi].name)>>
                   ELSE Append(columns, factor_dict[fi].name))
    /\ fi' = fi + 1
    /\ UNCHANGED <<pc, ret, supplied, factor_dict, zscore, returned, numer, series,
                   krxVars, ecosVars, httpVars>>

\* return df[columns]
factors_return ==
    /\ pc = "compute_factors"
    /\ fi > Len(factor_dict)
    /\ returned' = Select(panel, columns)
    /\ ret' = "ok"
    /\ pc' = "done"
    /\ UNCHANGED <<panel, supplied, factor_dict, zscore, columns, fi, numer, series,
                   krxVars, ecosVars, httpVars>>

NextCompute == apply_factor \/ factors_return

SpecCompute == InitCompute /\ [][NextCompute]_vars

---------------------------------------------------------------------------
(* The request methods: EcosAPI.get_req and get_data_ecos_stat_search      *)
(* (src/funcs/ecos.py), Fred.request (src/getData/fred.py), Dart.request   *)
(* (src/getData/dart.py)                                                   *)

\* requests.get is an external collaborator: it raises a transport
\* exception or returns a response, which has a status and a body.  A body
\* is not JSON, a JSON list, or a JSON object; of an object the model keeps
\* the members the wrappers look at, each << >> when absent.

StatusOk == 200
Statuses == {StatusOk, 404, 500}

\* the exceptions requests.get raises; Response.raise_for_status alone
\* raises requests.exceptions.HTTPError
TransportErrors == {"ConnectionError", "Timeout"}

ResultCodes == {"INFO-200", "INFO-100", "ERROR-100"}
Messages == {"upstream message"}

Dicts ==
    [kind : {"dict"},
     RESULT : {<< >>} \cup {<<[CODE |-> c, MESSAGE |-> msg]>> : c \in ResultCodes, msg \in Messages},
     error_code : {<< >>, <<0>>, <<400>>},
     error_message : {<< >>} \cup {<<msg>> : msg \in Messages}]

Bodies == Dicts \cup {[kind |-> "not-json"], [kind |-> "list"]}

Responses ==
    {[transport |-> e] : e \in TransportErrors}
    \cup [transport : {"ok"}, status_code : Statuses, body : Bodies]

Raise(exc, msg) == [kind |-> "raise", exc |-> exc, msg |-> msg]
Return(data) == [kind |-> "return", data |-> data]

\* EcosAPI.get_req(url)
GetReq(r) ==
    IF r.transport # "ok" THEN Raise(r.transport, "")
    ELSE IF r.status_code = StatusOk
         THEN (IF r.body.kind = "not-json" THEN Raise("JSONDecodeError", "")
               ELSE Return(r.body))
         ELSE Raise("ValueError", "API request failed with status code")

\* the check of get_data_ecos_stat_search on what get_req gave
StatSearchCheck(o) ==
    IF o.kind = "return" /\ o.data.kind = "dict" /\ o.data.RESULT # << >>
       /\ o.data.RESULT[1].CODE = "INFO-200"
    THEN Raise("FileExistsError", o.data.RESULT[1].MESSAGE)
    ELSE o

\* data.get("error_code") is truthy
HasErrorCode(data) ==
    data.kind = "dict" /\ data.error_code # << >> /\ data.error_code[1] # 0

\* data.get("error_message", "API error")
ErrorMessage(data) ==
    IF data.error_message # << >> THEN data.error_message[1] ELSE "API error"

\* Fred.request(url, params).  The except clause takes HTTPError only, so
\* an exception of requests.get leaves the method; had it been caught, the
\* read of response would fail, response being unassigned.  An HTTP error
\* status is printed and the body is read like that of a success.
FredRequest(r) ==
    IF r.transport # "ok"
    THEN (IF r.transport = "HTTPError" THEN Raise("UnboundLocalError", "")
          ELSE Raise(r.transport, ""))
    ELSE IF r.body.kind = "not-json" THEN Raise("Exception", "Invalid JSON response")
    ELSE IF HasErrorCode(r.body) THEN Raise("Exception", ErrorMessage(r.body))
    ELSE Return(r.body)

\* Dart.request(url, params), the same statements as Fred.request
DartRequest(r) ==
    IF r.transport # "ok"
    THEN (IF r.transport = "HTTPError" THEN Raise("UnboundLocalError", "")
          ELSE Raise(r.transport, ""))
    ELSE IF r.body.kind = "not-json" THEN Raise("Exception", "Invalid JSON response")
    ELSE IF HasErrorCode(r.body) THEN Raise("Exception", ErrorMessage(r.body))
    ELSE Return(r.body)

InitHttp ==
    /\ pc = "request"
    /\ wrapper \in {"EcosAPI", "Fred", "Dart"}
    /\ response \in Responses
    /\ outcome = [kind |-> "none"]
    /\ ret = "none"
    /\ IdleKrx /\ IdleEcos /\ IdleFactor

\* data = self.get_req(url) in get_data_ecos_stat_search
get_req ==
    /\ pc = "request" /\ wrapper = "EcosAPI"
    /\ outcome' = GetReq(response)
    /\ pc' = "got"
    /\ UNCHANGED <<ret, wrapper, response, krxVars, ecosVars, factorVars>>

\* the rest of get_data_ecos_stat_search
stat_search_check ==
    /\ pc = "got"
    /\ outcome' = StatSearchCheck(outcome)
    /\ ret' = (IF StatSearchCheck(outcome).kind = "raise"
               THEN StatSearchCheck(outcome).exc ELSE "ok")
    /\ pc' = "done"
    /\ UNCHANGED <<wrapper, response, krxVars, ecosVars, factorVars>>

fred_request ==
    /\ pc = "request" /\ wrapper = "Fred"
    /\ outcome' = FredRequest(response)
    /\ ret' = (IF FredRequest(response).kind = "raise"
               THEN FredRequest(response).exc ELSE "ok")
    /\ pc' = "done"
    /\ UNCHANGED <<wrapper, response, krxVars, ecosVars, factorVars>>

dart_request ==
    /\ pc = "request" /\ wrapper = "Dart"
    /\ outcome' = DartRequest(response)
    /\ ret' = (IF DartRequest(response).kind = "raise"
               THEN DartRequest(response).exc ELSE "ok")
    /\ pc' = "done"
    /\ UNCHANGED <<wrapper, response, krxVars, ecosVars, factorVars>>

NextHttp == get_req \/ stat_search_check \/ fred_request \/ dart_request

SpecHttp == InitHttp /\ [][NextHttp]_vars

---------------------------------------------------------------------------
(* Claims about Krx.build_ticker_periods *)

\* C1: every period that build_ticker_periods emits, for any event rows in
\* any input row order, has start <= end.
C1_StartLeEnd ==
    \A i \in DOMAIN results : results[i].start <= results[i].end

\* the rows were given out of date order and a period spans several days
C1_Witness ==
    /\ pc = "done" /\ ret = "ok"
    /\ \E i \in DOMAIN df : \E j \in DOMAIN df : i < j /\ df[i].date > df[j].date
    /\ \E i \in DOMAIN results : results[i].start < results[i].end

\* The periods the events call for, read off the sorted rows s without
\* running the loop.  c is active when row k removes it iff c was added at
\* some row j <= k, not added again in j+1..k and not removed in j..k-1.
LastAdd(s, c, k) ==
    LET J == {j \in 1..k : c \in s[j].added}
    IN IF J = {} THEN 0 ELSE Max(J)

EntryAt(s, c, k) ==
    LET j == LastAdd(s, c, k)
    IN IF j # 0 /\ \A m \in j..(k - 1) : c \notin s[m].removed THEN j ELSE 0

Removals(s) ==
    {ck \in Codes \X DOMAIN s :
        ck[1] \in s[ck[2]].removed /\ EntryAt(s, ck[1], ck[2]) # 0}

RemovalPeriod(s, ck) ==
    [code |-> ck[1], start |-> s[EntryAt(s, ck[1], ck[2])].date, end |-> s[ck[2]].date]

StillActive(s) ==
    {c \in Codes : /\ Len(s) > 0
                   /\ EntryAt(s, c, Len(s)) # 0
                   /\ c \notin s[Len(s)].removed}

FinalPeriod(s, c) ==
    [code |-> c, start |-> s[EntryAt(s, c, Len(s))].date, end |-> s[Len(s)].date]

\* how many periods equal to p the events call for
Due(s, p) ==
    Cardinality({ck \in Removals(s) : RemovalPeriod(s, ck) = p})
    + Cardinality({c \in StillActive(s) : FinalPeriod(s, c) = p})

DuePeriods(s) ==
    {RemovalPeriod(s, ck) : ck \in Removals(s)}
    \cup {FinalPeriod(s, c) : c \in StillActive(s)}

Emitted(p) == Cardinality({i \in DOMAIN results : results[i] = p})

SortedByCodeStart(r) ==
    \A i \in DOMAIN r : \A j \in DOMAIN r : i < j => ~KeyLt(r[j], r[i])

\* C2: when the events (in ascending date order) call for at least one
\* period, build_ticker_periods returns exactly one period (code, entry
\* date, event date) per removal of an active code and one (code, entry
\* date, last date) per code still active at the end, sorted by
\* (code, start) ascending.
C2_ExactPeriods ==
    (pc = "done" /\ DuePeriods(sorted_df) # {}) =>
        /\ ret = "ok"
        /\ SortedByCodeStart(results)
        /\ \A p \in DuePeriods(sorted_df) \cup {results[i] : i \in DOMAIN results} :
              Emitted(p) = Due(sorted_df, p)

\* the example: A and B enter on day 1, B leaves on day 3, A stays
C2_Witness ==
    /\ pc = "done"
    /\ sorted_df = <<[date |-> 1, added |-> {"A", "B"}, removed |-> {}],
                     [date |-> 3, added |-> {}, removed |-> {"B"}]>>
    /\ results = <<[code |-> "A", start |-> 1, end |-> 3],
                   [code |-> "B", start |-> 1, end |-> 3]>>

\* C3: a call with no event rows, and any call whose events call for no
\* period, returns an empty result and raises nothing.
C3_EmptyNoError ==
    (pc = "done" /\ DuePeriods(sorted_df) = {}) =>
        (ret = "ok" /\ results = << >>)

---------------------------------------------------------------------------
(* Claims about Krx.compress_periods *)

RowsOf(d, c) == {i \in DOMAIN d : d[i].code = c}

\* C4: compress_periods returns one row per distinct code of its input, with
\* the least start and the greatest end of that code's rows, the rows in
\* ascending code order.
C4_MinMaxPerCode ==
    (pc \in {"compressed", "compressed_twice"}) =>
        /\ \A c \in Codes :
              Cardinality(RowsOf(compressed, c)) = (IF RowsOf(df, c) = {} THEN 0 ELSE 1)
        /\ \A k \in DOMAIN compressed :
              LET r == compressed[k]
                  I == RowsOf(df, r.code)
              IN /\ \E i \in I : df[i].start = r.start
                 /\ \E i \in I : df[i].end = r.end
                 /\ \A i \in I : r.start <= df[i].start /\ df[i].end <= r.end
        /\ \A i \in DOMAIN compressed : \A j \in DOMAIN compressed :
              i < j => Ord(compressed[i].code) < Ord(compressed[j].code)

\* a code with two periods whose extremes come from different rows, given
\* after a row of a greater code
C4_Witness ==
    /\ pc = "compressed"
    /\ Len(df) = 3 /\ Len(compressed) = 2
    /\ Ord(df[1].code) > Ord(df[2].code)
    /\ \E i \in DOMAIN df : \E j \in DOMAIN df :
          /\ i # j /\ df[i].code = df[j].code
          /\ df[i].start < df[j].start /\ df[i].end < df[j].end

\* C5: compressing the frame that compress_periods returned gives that
\* frame again (in state "compressed_twice" df holds the first result).
C5_Idempotent ==
    (pc = "compressed_twice") => compressed = df

\* the first compression did change the frame: it merged rows
C5_Witness ==
    /\ pc = "compressed_twice"
    /\ Len(df) = 2
    /\ \E k \in DOMAIN df : df[k].start < df[k].end

---------------------------------------------------------------------------
(* Claims about Krx.get_index_deposit *)

\* a step that issued a query, and the entry it added to the log
QueryStep == Len(queries') = Len(queries) + 1
NewQuery == queries'[Len(queries')]

\* the query raised or returned no code
NoSnapshot(q) == q.got = << >> \/ q.got[1] = {}

\* None counts as the empty baseline
Baseline(prev) == IF prev = << >> THEN {} ELSE prev[1]

LastGood(q) ==
    LET G == {i \in DOMAIN q : ~NoSnapshot(q[i])}
    IN IF G = {} THEN << >> ELSE q[Max(G)].got

---------------------------------------------------------------------------
(* Claims about Krx.get_combined_ohlcv *)

\* the row (code c, day x) was returned by a query
Retrieved(c, x) == \E k \in DOMAIN fetched : fetched[k].code = c /\ x \in fetched[k].dates

\* day x lies in one of the periods of code c as the caller gave them
InSomePeriod(c, x) ==
    \E i \in DOMAIN df : df[i].code = c /\ df[i].start <= x /\ x <= df[i].end

---------------------------------------------------------------------------
(* Claims about removals of entities that are not active *)

\* the active mapping and the periods when the loop reaches row i
BeforeRow(i) ==
    Loop([active |-> EmptyActive, res |-> << >>], SubSeq(sorted_df, 1, i - 1), 1)

\* the codes row i removes that are not active when their removal is
\* reached (the additions of the row come first)
DroppedAt(i) ==
    {c \in sorted_df[i].removed : AddAll(BeforeRow(i).active, sorted_df[i])[c] = 0}

\* C17: build_ticker_periods drops the removal of an entity that is not
\* active: the removal leaves the active mapping and the periods emitted so
\* far as they are, it emits no period and raises nothing, so that the row
\* and the whole call end as they end without that removal.
C17_InactiveRemovalDropped ==
    (pc = "done") =>
        \A i \in DOMAIN sorted_df : \A c \in DroppedAt(i) :
            LET st == BeforeRow(i)
                row == sorted_df[i]
                a == AddAll(st.active, row)
                without == [sorted_df EXCEPT ![i].removed = @ \ {c}]
            IN /\ RemoveAll(a, st.res, row, {c}) = [active |-> a, res |-> st.res]
               /\ ProcessRow(st, row) = ProcessRow(st, without[i])
               /\ results = BuildOutcome(without).periods
               /\ ret = BuildOutcome(without).ret

\* a call that met the removal of an entity never added, and returned the
\* period of another entity
C17_Witness ==
    /\ pc = "done" /\ ret = "ok"
    /\ \E i \in DOMAIN sorted_df : "B" \in DroppedAt(i)
    /\ \A i \in DOMAIN sorted_df : "B" \notin sorted_df[i].added
    /\ \E j \in DOMAIN results : results[j].code = "A"

---------------------------------------------------------------------------
(* Claims about the periods of one entity *)

\* C22: the periods build_ticker_periods returns for one code do not
\* overlap, save at a shared end point: in the returned order, which lists
\* them by start, the end of a period is at most the start of every later
\* period of the code, so no two periods of a code are open at one time.
C22_PeriodsDisjoint ==
    (pc = "done" /\ ret = "ok") =>
        \A i, j \in DOMAIN results :
            (i < j /\ results[i].code = results[j].code) =>
                /\ results[i].start <= results[j].start
                /\ results[i].end <= results[j].start

\* a code that left and came back later has two periods with a gap
C22_Witness ==
    /\ pc = "done" /\ ret = "ok"
    /\ \E i, j \in DOMAIN results :
          /\ i < j /\ results[i].code = results[j].code
          /\ results[i].end < results[j].start

---------------------------------------------------------------------------
(* Claims about the queries of the Krx wrapper *)

\* the codes of the input of get_combined_ohlcv
InputCodes == {df[i].code : i \in DOMAIN df}

Weekend(d) == d % 7 \in {6, 0}

---------------------------------------------------------------------------
(* Claims about EcosAPI.parse_time *)

\* C11: parse_time maps every token that names a calendar period to the
\* first date of the period: YYYY to January 1, YYYYMM to day 1 of the
\* month, YYYYMMDD to the date, YYYYQn to day 1 of month (n-1)*3+1, YYYYSn
\* to day 1 of month (n-1)*6+1, YYYYMMSn to day 1 (n=1) or 16 (n=2) of the
\* month; the seven tokens of the specification give the dates it lists.
C11_FirstDateOfPeriod ==
    (pc = "done") =>
        /\ \A y \in {x \in Years : x >= 1} :
              /\ val = D4(y) => parsed = Date(y, 1, 1)
              /\ \A m \in 1..12 :
                    /\ val = D4(y) \o D2(m) => parsed = Date(y, m, 1)
                    /\ \A d \in 1..DaysInMonth(y, m) :
                          val = D4(y) \o D2(m) \o D2(d) => parsed = Date(y, m, d)
                    /\ val = D4(y) \o D2(m) \o <<"S", "1">> => parsed = Date(y, m, 1)
                    /\ val = D4(y) \o D2(m) \o <<"S", "2">> => parsed = Date(y, m, 16)
              /\ \A n \in 1..4 :
                    val = D4(y) \o <<"Q", Dig(n)>> => parsed = Date(y, (n - 1) * 3 + 1, 1)
              /\ \A n \in 1..2 :
                    val = D4(y) \o <<"S", Dig(n)>> => parsed = Date(y, (n - 1) * 6 + 1, 1)
        /\ val = <<"2", "0", "2", "3">> => parsed = Date(2023, 1, 1)
        /\ val = <<"2", "0", "2", "3", "0", "3">> => parsed = Date(2023, 3, 1)
        /\ val = <<"2", "0", "2", "3", "0", "3", "1", "5">> => parsed = Date(2023, 3, 15)
        /\ val = <<"2", "0", "2", "3", "Q", "3">> => parsed = Date(2023, 7, 1)
        /\ val = <<"2", "0", "2", "3", "S", "2">> => parsed = Date(2023, 7, 1)
        /\ val = <<"2", "0", "2", "3", "0", "3", "S", "2">> => parsed = Date(2023, 3, 16)
        /\ val = NotADate => parsed = NaT

\* the fourth quarter of a year has been parsed to October 1
C11_Witness ==
    /\ pc = "done"
    /\ val = <<"2", "0", "2", "4", "Q", "4">>
    /\ parsed = [kind |-> "date", y |-> 2024, m |-> 10, d |-> 1]

\* C12: parse_time is total: whatever the token, out-of-range month, day or
\* year included, it returns a date or the not-a-time sentinel and raises
\* nothing.
C12_Total ==
    (pc = "done") => (ret = "ok" /\ parsed.kind \in {"date", "NaT"})

---------------------------------------------------------------------------
(* Claims about EcosAPI.process_data_stat_search *)

\* the TIME token of row i is none of the six shapes
Malformed(i) == ~Match(stat_rows[i].TIME).matched

\* C18: process_data_stat_search raises nothing and keeps every row whose
\* TIME token is malformed, its time the not-a-time sentinel: in the
\* single-column frame the row is at its place with its value, in the
\* pivoted frame a row of the sentinel holds its value, when it has one.
C18_MalformedRowsRetained ==
    (pc = "done" /\ \E i \in DOMAIN stat_rows : Malformed(i)) =>
        /\ ret = "ok"
        /\ frame.shape \in {"single", "pivot"}
        /\ \A i \in DOMAIN stat_rows : Malformed(i) =>
              /\ frame.shape = "single" =>
                    frame.rows[i] = [TIME |-> NaT, value |-> stat_rows[i].DATA_VALUE]
              /\ (frame.shape = "pivot" /\ stat_rows[i].DATA_VALUE # << >>) =>
                    \E j \in DOMAIN frame.rows :
                        /\ frame.rows[j].TIME = NaT
                        /\ ColOf(stat_rows[i]) \in DOMAIN frame.rows[j].cells

---------------------------------------------------------------------------
(* Claims about ratio_factor *)

\* C13: ratio_factor, its numerator a column or a number, completes
\* without error on a panel that has zero denominators; the rows whose
\* denominator is zero get the missing marker, the rows whose numerator and
\* non-zero denominator are finite get a finite ratio, and no row is
\* infinite.
C13_ZeroDenominatorMissing ==
    (pc = "done" /\ \E i \in DOMAIN panel : IsZero(panel[i].b)) =>
        /\ ret = "ok"
        /\ Len(series) = Len(panel)
        /\ \A i \in DOMAIN series :
              /\ series[i].k # "inf"
              /\ IsZero(panel[i].b) => series[i] = NaN
              /\ (panel[i].b.k = "fin" /\ ~IsZero(panel[i].b)
                    /\ (numer.is = "column" => panel[i].a.k = "fin"))
                 => series[i].k = "fin"

---------------------------------------------------------------------------
(* Claims about the request methods *)

\* the payload of an HTTP 200 response carries an application error
AppError ==
    /\ response.transport = "ok" /\ response.status_code = StatusOk
    /\ response.body.kind = "dict"
    /\ IF wrapper = "EcosAPI" THEN response.body.RESULT # << >>
       ELSE HasErrorCode(response.body)

\* the message of the application error, << >> when the payload has none
UpstreamMessage ==
    IF wrapper = "EcosAPI" THEN <<response.body.RESULT[1].MESSAGE>>
    ELSE response.body.error_message

\* C14: in every wrapper a call whose HTTP 200 response carries an
\* application error in its payload raises an error with the upstream
\* message and does not return the payload; in get_data_ecos_stat_search
\* whatever the RESULT code.
C14_AppErrorRaised ==
    (pc = "done" /\ AppError) =>
        /\ outcome.kind = "raise"
        /\ UpstreamMessage # << >> => outcome.msg = UpstreamMessage[1]

\* the request failed: requests.get raised, or the status is not 200
RequestFailed ==
    response.transport # "ok" \/ response.status_code # StatusOk

\* C15: in every wrapper a request that failed in transport or with an
\* HTTP error status ends in an error: no payload is returned, and the
\* error is not the read of an unassigned response.
C15_FailureIsError ==
    (pc \in {"got", "done"} /\ RequestFailed) =>
        /\ outcome.kind = "raise"
        /\ outcome.exc # "UnboundLocalError"

---------------------------------------------------------------------------
(* Claims about cs_zscore *)

\* the rows that share the date of row i
SameDate(i) == {j \in DOMAIN panel : panel[j].Date = panel[i].Date}

\* the values on the date of row i are all the same: their standard
\* deviation is zero
ZeroStd(i) == \A j \in SameDate(i) : panel[j].x = panel[i].x

\* C16: cs_zscore gives every row (x - mean)/(std + 1e-8), mean and std
\* taken over the rows of the row's own date; the value is a finite number
\* on every date, and it is 0 on a date whose standard deviation is zero,
\* a date with one observation included.
C16_ZscoreDefined ==
    (pc = "done") =>
        /\ Len(series) = Len(panel)
        /\ \A i \in DOMAIN panel :
              /\ series[i].k = "fin"
              /\ series[i].eps = <<1, 100000000>>
              /\ series[i].dev[2] = Cardinality(SameDate(i))
              /\ series[i].dev[1] =
                    panel[i].x * Cardinality(SameDate(i))
                    - SumOver([j \in SameDate(i) |-> panel[j].x], SameDate(i))
              /\ ZeroStd(i) => (series[i].dev[1] = 0 /\ series[i].var[1] = 0)

---------------------------------------------------------------------------
(* Claims about compute_factors *)

\* C21: compute_factors gives each factor name the column its function
\* computes from the panel as the caller supplied it, and its z-score
\* column from that column, whatever the other factors of the mapping and
\* their order: no column written for one factor reaches the input of
\* another.
C21_FactorsIndependent ==
    (pc = "done") =>
        /\ Len(returned) = Len(supplied)
        /\ \A k \in DOMAIN factor_dict : \A i \in DOMAIN supplied :
              LET e == factor_dict[k]
                  alone == SetCol(supplied, e.name, LogFactor(supplied, e.col))
              IN /\ returned[i][e.name] = Log(supplied[i][e.col])
                 /\ zscore => returned[i][ZName(e.name)] = ZCol(alone, e.name)[i]

---------------------------------------------------------------------------
(* Claims about the date conversion of EcosAPI.get_data_from_ecos *)

\* the first day of the period of granularity p that contains the date d
PeriodStart(p, d) ==
    LET y == IntOf(SubSeq(d, 1, 4))
        m == IntOf(SubSeq(d, 5, 6))
        dd == IntOf(SubSeq(d, 7, 8))
    IN IF p = "A" THEN [kind |-> "date", y |-> y, m |-> 1, d |-> 1]
       ELSE IF p = "Q" THEN [kind |-> "date", y |-> y, m |-> ((m - 1) \div 3) * 3 + 1, d |-> 1]
       ELSE IF p = "M" THEN [kind |-> "date", y |-> y, m |-> m, d |-> 1]
       ELSE IF p = "D" THEN [kind |-> "date", y |-> y, m |-> m, d |-> dd]
       ELSE IF p = "S" THEN [kind |-> "date", y |-> y, m |-> ((m - 1) \div 6) * 6 + 1, d |-> 1]
       ELSE [kind |-> "date", y |-> y, m |-> m, d |-> IF dd <= 15 THEN 1 ELSE 16]

\* C23: for every supported period code and every valid start and end
\* date, the token get_data_from_ecos makes of the date is accepted by
\* parse_time and parses to the first day of the year, quarter, month, day,
\* half-year or half-month that contains the date.
C23_TokenDenotesPeriodOfDate ==
    (pc = "parsed") =>
        /\ Match(start_var).matched /\ Match(end_var).matched
        /\ start_parsed = PeriodStart(per, ecos_start_date)
        /\ end_parsed = PeriodStart(per, ecos_end_date)

===========================================================================
